---- MODULE Spec2Model ----
(***************************************************************************)
(* Model of src/index.js: the multi-source result resolution service.      *)
(*                                                                         *)
(*   Spec      one POST /api/search-result request: the dispatch race over *)
(*             the search order, the enrichment of the winner, the web     *)
(*             fallback and the response.                                  *)
(*   LiveSpec  Spec with the fairness the event loop gives: an armed timer *)
(*             fires, and the HTTP client of the fallback settles.         *)
(*   NormSpec  the pure record mappings (database row / web entry to a     *)
(*             resultData entry), applied to enumerated input shapes.      *)
(*   RegistrySpec  the switch, projects, health and regulations routes.    *)
(*   SwitchSpec    a search request with switch calls interleaved.         *)
(*   CacheSpec     a search request with health and regulations calls      *)
(*                 interleaved.                                            *)
(***************************************************************************)
EXTENDS Integers, Sequences, FiniteSets

(***************************************************************************)
(* Bounds of the model.                                                    *)
(***************************************************************************)
\* longest search order (config.search_order)
MaxOrder == 2

(***************************************************************************)
(* JavaScript values.  Numbers are fixed point, in hundredths (3.5 is 350, *)
(* the semester 3 is 300): the service only ever converts them.            *)
(***************************************************************************)
Undefined == [undef |-> TRUE]
Null == [null |-> TRUE]
NaN == [nan |-> TRUE]
Num(n) == [num |-> n]
Str(s) == [str |-> s]
Bool(b) == [bool |-> b]
Arr(a) == [arr |-> a]
\* the nested grade object of the web service: { gpa, ref_subjects }
GradeObj(g, subjects) == [gpa |-> g, ref_subjects |-> subjects]

IsNum(v) == "num" \in DOMAIN v
IsStr(v) == "str" \in DOMAIN v
IsBool(v) == "bool" \in DOMAIN v
IsArr(v) == "arr" \in DOMAIN v
IsGradeObj(v) == "ref_subjects" \in DOMAIN v

\* ToBoolean: undefined, null, NaN, 0, "" and false are falsy
Truthy(v) ==
  CASE v = Undefined -> FALSE
    [] v = Null -> FALSE
    [] v = NaN -> FALSE
    [] IsNum(v) -> v.num # 0
    [] IsStr(v) -> v.str # ""
    [] IsBool(v) -> v.bool
    [] OTHER -> TRUE

\* a || b
OrElse(a, b) == IF Truthy(a) THEN a ELSE b

\* v == null
LooseNull(v) == v = Undefined \/ v = Null

Digit == <<"0", "1", "2", "3", "4", "5", "6", "7", "8", "9">>

\* Number.prototype.toString of a non-negative fixed-point number below 10
NumberToString(n) ==
  LET whole == n \div 100
      frac == n % 100
      tenths == frac \div 10
      hundredths == frac % 10
  IN  Digit[whole + 1] \o
        (IF frac = 0 THEN ""
         ELSE "." \o Digit[tenths + 1] \o
                (IF hundredths = 0 THEN "" ELSE Digit[hundredths + 1]))

\* StringToNumber on the string literals of the model
StringToNumber(s) ==
  CASE s = "" -> Num(0)
    [] s = "0" -> Num(0)
    [] s = "1" -> Num(100)
    [] s = "2" -> Num(200)
    [] s = "3" -> Num(300)
    [] s = "3.5" -> Num(350)
    [] s = "3.50" -> Num(350)
    [] s = "3.25" -> Num(325)
    [] OTHER -> NaN

\* Number(v)
JsNumber(v) ==
  CASE v = Undefined -> NaN
    [] v = Null -> Num(0)
    [] v = NaN -> NaN
    [] IsNum(v) -> v
    [] IsStr(v) -> StringToNumber(v.str)
    [] IsBool(v) -> IF v.bool THEN Num(100) ELSE Num(0)
    [] IsArr(v) -> IF v.arr = <<>> THEN Num(0) ELSE NaN
    [] OTHER -> NaN

\* String(v)
JsString(v) ==
  CASE v = Undefined -> "undefined"
    [] v = Null -> "null"
    [] v = NaN -> "NaN"
    [] IsNum(v) -> NumberToString(v.num)
    [] IsStr(v) -> v.str
    [] IsBool(v) -> IF v.bool THEN "true" ELSE "false"
    [] IsArr(v) -> IF v.arr = <<>> THEN "" ELSE "[array]"
    [] OTHER -> "[object Object]"

\* typeof v === 'number'
TypeofNumber(v) == IsNum(v) \/ v = NaN

\* v?.ref_subjects
RefSubjectsOf(v) == IF IsGradeObj(v) THEN v.ref_subjects ELSE Undefined

\* Array.isArray(v) ? v : []
ArrayOrEmpty(v) == IF IsArr(v) THEN v.arr ELSE <<>>

SENTINEL_TIME == "2025-01-01T00:00:00Z"

(***************************************************************************)
(* The record mappings.                                                    *)
(***************************************************************************)
\* obj.f of a parsed JSON value: undefined when the value has no such field
Field(obj, f) == IF f \in DOMAIN obj THEN obj[f] ELSE Undefined

\* WebGpaRecord that drops the list of reference subjects
WebGpaRecordNoSubjects(r) ==
  [semester |-> JsNumber(OrElse(r.semester, Num(100))),
   gpa |-> IF TypeofNumber(r.result) THEN r.result
           ELSE IF r.result = Str("ref") THEN Null ELSE JsNumber(r.result),
   is_reference |-> Bool(r.result = Str("ref") \/ r.passed = Bool(FALSE)),
   ref_subjects |-> Arr(<<>>),
   created_at |-> OrElse(r.publishedAt, Str(SENTINEL_TIME))]

\* webApiFallback: one entry of data.resultData to the internal grade record
WebGpaRecord(r) ==
  [semester |-> JsNumber(OrElse(r.semester, Num(100))),
   gpa |-> IF TypeofNumber(r.result) THEN r.result
           ELSE IF r.result = Str("ref") THEN Null ELSE JsNumber(r.result),
   is_reference |-> Bool(r.result = Str("ref") \/ r.passed = Bool(FALSE)),
   ref_subjects |-> Arr(ArrayOrEmpty(RefSubjectsOf(r.result))),
   created_at |-> OrElse(r.publishedAt, Str(SENTINEL_TIME))]

\* resultData entry of the configured-source response, from a gpa_records row
SourceResultEntry(g) ==
  [publishedAt |-> OrElse(g.created_at, Str(SENTINEL_TIME)),
   semester |-> JsString(OrElse(g.semester, Num(100))),
   result |-> [gpa |-> IF LooseNull(g.gpa) THEN "ref" ELSE JsString(g.gpa),
               ref_subjects |-> ArrayOrEmpty(g.ref_subjects)],
   passed |-> IF Truthy(g.is_reference) THEN FALSE ELSE TRUE,
   gpa |-> IF LooseNull(g.gpa) THEN "ref" ELSE JsString(g.gpa)]

\* resultData entry of the fallback response, from an internal grade record
WebResultEntry(g) ==
  [publishedAt |-> OrElse(g.created_at, Str(SENTINEL_TIME)),
   semester |-> JsString(OrElse(g.semester, Num(100))),
   passed |-> IF Truthy(g.is_reference) THEN FALSE ELSE TRUE,
   gpa |-> IF LooseNull(g.gpa) THEN "ref" ELSE JsString(g.gpa),
   result |-> [gpa |-> IF LooseNull(g.gpa) THEN "ref" ELSE JsString(g.gpa),
               ref_subjects |-> ArrayOrEmpty(g.ref_subjects)]]

\* webApiFallback: the reply of the web service to the internal record, or
\* Null.  A reply is a transport failure (axios rejects on an error, on its
\* timeout and on a status outside 2xx) or a response with status and data.
webApiFallback(reply, roll, regulation, program) ==
  IF reply.kind # "response" THEN Null
  ELSE IF reply.status # 200 THEN Null
  ELSE IF reply.data = Null THEN Null
  ELSE
    LET data == reply.data
        inst == Field(data, "instituteData")
    IN  [source |-> Str("web_api_btebresulthub"),
         student |->
           [roll_number |-> OrElse(Field(data, "roll"), Str(roll)),
            program_name |-> OrElse(Field(data, "exam"), Str(program)),
            regulation_year |-> OrElse(Field(data, "regulation"), Str(regulation)),
            institute_code |-> OrElse(Field(inst, "code"), Str("00000")),
            created_at |-> OrElse(Field(data, "time"), Str(SENTINEL_TIME))],
         institute |->
           [name |-> OrElse(Field(inst, "name"), Str("Unknown")),
            district |-> OrElse(Field(inst, "district"), Str("Unknown")),
            institute_code |-> OrElse(Field(inst, "code"), Str("00000"))],
         gpaRecords |->
           LET entries == ArrayOrEmpty(OrElse(Field(data, "resultData"), Arr(<<>>)))
           IN  [i \in 1..Len(entries) |-> WebGpaRecord(entries[i])]]

\* fetchCgpaRecordsAcrossProjects: one cgpa_records row to a cgpaData entry
CgpaEntry(r) ==
  [semester |-> OrElse(r.semester, Str("Final")),
   cgpa |-> JsString(IF LooseNull(r.cgpa) THEN Str("0.00") ELSE r.cgpa),
   publishedAt |-> OrElse(r.created_at, Str(SENTINEL_TIME))]

(***************************************************************************)
(* Configuration and data of the backends.                                 *)
(***************************************************************************)
\* the keys of config.projects: the two projects applyEnvToConfig defines
Projects == {"primary", "secondary"}

\* a name the search order of supabase_projects.json may list although no
\* project has it
Ghost == "ghost"

Names == Projects \cup {Ghost}

\* the search orders: the duplicate-free sequences of at most MaxOrder names
SearchOrders ==
  {o \in UNION {[1..n -> Names] : n \in 0..MaxOrder} :
     \A i, j \in DOMAIN o : i # j => o[i] # o[j]}

\* the row of the students table a backend may hold
BaseRow ==
  [roll_number |-> "100001", program_name |-> "Diploma in Engineering",
   regulation_year |-> "2016", institute_code |-> "23105"]

\* a roll with an unpaired surrogate, which JSON.parse accepts as the escape \\ud800
LoneSurrogate == "<U+D800>"

\* `encodeURIComponent(roll)` throws URIError
EncodeThrows(roll) == roll = LoneSurrogate

\* the request bodies: the key of BaseRow, keys off by one field, a body
\* without rollNo
Bodies ==
  {[rollNo |-> "100001", regulation |-> "2016", program |-> "Diploma in Engineering"],
   [rollNo |-> "100002", regulation |-> "2016", program |-> "Diploma in Engineering"],
   [rollNo |-> "100001", regulation |-> "2022", program |-> "Diploma in Engineering"],
   [rollNo |-> "100001", regulation |-> "2016", program |-> "Diploma in Textile"],
   [rollNo |-> "", regulation |-> "2016", program |-> "Diploma in Engineering"],
   [rollNo |-> LoneSurrogate, regulation |-> "2016",
    program |-> "Diploma in Engineering"]}

\* what the institutes query may give: no row (or an error: data undefined),
\* or a row, here one without a district
InstituteResults ==
  {Null,
   [institute_code |-> Str("23105"), name |-> Str("Dhaka Polytechnic"), district |-> Null]}

\* what the gpa_records query may give, ordered by semester
GpaRow(sem, g, isref) ==
  [semester |-> Num(sem), gpa |-> g, is_reference |-> isref,
   ref_subjects |-> IF g = Null THEN Arr(<<"25711">>) ELSE Null,
   created_at |-> IF g = Null THEN Null ELSE Str("2024-03-01T00:00:00Z")]

GpaResults ==
  {<<>>,
   <<GpaRow(100, Num(350), Bool(FALSE))>>,
   <<GpaRow(100, Num(325), Bool(FALSE)), GpaRow(200, Null, Bool(TRUE))>>}

\* `.limit(20)` of the cgpa_records query
CGPA_LIMIT == 20

\* the cgpa_records rows a backend may hold for the roll: none, one, and one
\* more than the query's limit
CgpaTables ==
  {<<>>,
   <<[semester |-> Null, cgpa |-> Num(350), created_at |-> Null]>>,
   [i \in 1..(CGPA_LIMIT + 1) |->
      [semester |-> Num(100 * i), cgpa |-> Num(350), created_at |-> Null]]}

\* Limit with every row returned.
LimitNone(rows, n) == rows

\* `.limit(n)`: at most the first n rows
Limit(rows, n) == IF Len(rows) <= n THEN rows ELSE SubSeq(rows, 1, n)

\* the answers of the cgpa_records query
CgpaResults == {Limit(t, CGPA_LIMIT) : t \in CgpaTables}

\* the entries of the web service's resultData
WebEntries ==
  {[semester |-> Num(300), result |-> Num(350), passed |-> Bool(TRUE),
    publishedAt |-> Str("2024-03-01T00:00:00Z")],
   [semester |-> Undefined, result |-> Str("ref"), passed |-> Undefined,
    publishedAt |-> Undefined],
   [semester |-> Str("2"), result |-> GradeObj(Num(325), Arr(<<"25711">>)),
    passed |-> Bool(FALSE), publishedAt |-> Undefined],
   [semester |-> Undefined, result |-> GradeObj(Num(325), Undefined),
    passed |-> Bool(TRUE), publishedAt |-> Str("2024-03-01T00:00:00Z")]}

\* the JSON object {}: no field of the payload is present
EmptyObject == [constructor |-> "Object"]

\* the bodies of the web service's replies: JSON null, an empty body, an
\* empty object, and objects with resultData
WebData ==
  {Null, Str(""), EmptyObject}
  \cup {[roll |-> Str("100001"), instituteData |-> [code |-> Str("23105")],
         resultData |-> Arr(<<e>>)] : e \in WebEntries}
  \cup {[resultData |-> Arr(<<e>>)] : e \in WebEntries}

\* the replies of the web service
WebReplies ==
  {[kind |-> "failure"], [kind |-> "response", status |-> 204, data |-> Str("")]}
  \cup {[kind |-> "response", status |-> 200, data |-> d] : d \in WebData}

(***************************************************************************)
(* State.                                                                  *)
(***************************************************************************)
VARIABLES
  search_order,   \* config.search_order
  badUrl,         \* the projects whose url createClient rejects
  students,       \* the students table of each project
  current_project,\* config.current_project, or NoProject
  clients,        \* the names in the clients map
  created,        \* per name: how many clients createClient has built for it
  admin,          \* the last response of the registry and health routes
  pc,             \* where the handler of the request is
  req,            \* req.body
  query,          \* per name: the progress of queryStudentInProject
  race,           \* per name: the state of withTimeout(query, PROJECT_TIMEOUT_MS)
  inst,           \* per name: the institute the query resolved with
  winner,         \* the project_name of the winner, or NoWinner
  gpa,            \* the state of withTimeout(fetchGpaRecords, GPA_TIMEOUT_MS)
  gpaOf,          \* the project fetchGpaRecords was called with, or NoWinner
  gpas,           \* gpas, once settled
  crows,          \* per name: the entries its cgpa race has fulfilled with
  cq,             \* per name: the state of the cgpa query raced with its timer
  cgpa,           \* the state of withTimeout(fetchCgpaRecordsAcrossProjects)
  cgpaTimer,      \* the timer of that withTimeout: none, armed, fired
  cgpas,          \* cgpas, once settled
  web,            \* the axios.get of webApiFallback: not issued, pending, its reply
  resp,           \* the response sent, or NoResponse
  shape,          \* NormSpec: which mapping is applied
  input,          \* NormSpec: the record it is applied to
  output          \* NormSpec: the resultData entry it gave

reqVars ==
  <<pc, req, query, race, inst, winner, gpa, gpaOf, gpas, cq, crows, cgpa, cgpaTimer,
    cgpas, web, resp>>
cfgVars == <<search_order, badUrl, students>>
regVars == <<clients, created>>
adminVars == <<current_project, admin>>
normVars == <<shape, input, output>>
vars == <<cfgVars, adminVars, regVars, reqVars, normVars>>

NoWinner == "<none>"
NoProject == "<null>"
NoAdmin == [op |-> "none"]
NoResponse == [status |-> 0]
NoValue == [none |-> TRUE]
NotIssued == [kind |-> "none"]
Pending == [kind |-> "pending"]

\* the names of the search order
InOrder == {search_order[i] : i \in DOMAIN search_order}

\* a rejected race: the query threw, found nothing, or the timer fired first
Rejected == {"not_found", "error", "timeout"}

(***************************************************************************)
(* The source registry.                                                    *)
(***************************************************************************)
\* getClient throws: no such project, or createClient rejects its url
GetClientThrows(name) == name \notin Projects \/ name \in badUrl

\* the clients map after getClient on each of names
getClient(cache, names) == cache \cup {n \in names : ~GetClientThrows(n)}

\* createClient without the clients.has test: every getClient of a configured
\* project builds a client.
createClientAlways(made, cache, names) ==
  [n \in Names |->
     IF n \in names /\ ~GetClientThrows(n)
     THEN made[n] + 1 ELSE made[n]]

\* the clients built so far, after getClient on each of names: createClient
\* is called for a name that is configured and not in the map
createClient(made, cache, names) ==
  [n \in Names |->
     IF n \in names /\ ~GetClientThrows(n) /\ n \notin cache
     THEN made[n] + 1 ELSE made[n]]

(***************************************************************************)
(* The backends.                                                           *)
(***************************************************************************)
\* FindStudent without the filter on the roll
FindStudentAnyRoll(rows, roll, regulation, program) ==
  {r \in rows : /\ r.program_name = program
                /\ r.regulation_year = regulation}

\* the students query of queryStudentInProject: the rows with the program,
\* the regulation and the roll of the request
FindStudent(rows, roll, regulation, program) ==
  {r \in rows : /\ r.program_name = program
                /\ r.regulation_year = regulation
                /\ r.roll_number = roll}

\* a project holds a record that matches the key of the request
Holds(name, body) ==
  /\ name \in Projects
  /\ \E r \in students[name] :
       /\ r.roll_number = body.rollNo
       /\ r.regulation_year = body.regulation
       /\ r.program_name = body.program

(***************************************************************************)
(* The responses of POST /api/search-result.                               *)
(***************************************************************************)
\* 400: a field of the body is missing
\* the answer of Express to a handler that rejected
ServerError == [status |-> 500]

BadRequest ==
  [status |-> 400,
   body |-> [error |-> "Missing required fields: rollNo, regulation, program"]]

\* transformed: the response built from the winner and its enrichment
SourceResponse(student, institute, gpaRows, cgpaEntries) ==
  [status |-> 200,
   body |->
     [success |-> TRUE,
      roll |-> Str(student.roll_number),
      regulation |-> Str(student.regulation_year),
      exam |-> Str(student.program_name),
      instituteData |->
        [code |-> OrElse(Field(institute, "institute_code"), Str("00000")),
         name |-> OrElse(Field(institute, "name"), Str("Unknown")),
         district |-> OrElse(Field(institute, "district"), Str("Unknown"))],
      resultData |-> [i \in 1..Len(gpaRows) |-> SourceResultEntry(gpaRows[i])],
      cgpaData |-> cgpaEntries]]

\* transformedWeb: the response built from the record of webApiFallback
WebResponse(fallback, order) ==
  [status |-> 200,
   body |->
     [success |-> TRUE,
      time |-> OrElse(fallback.student.created_at, Str(SENTINEL_TIME)),
      roll |-> fallback.student.roll_number,
      regulation |-> fallback.student.regulation_year,
      exam |-> fallback.student.program_name,
      found_in_project |-> OrElse(fallback.source, Str("web_api")),
      projects_searched |-> order \o <<"web_apis">>,
      source |-> Str("web_api"),
      instituteData |->
        [code |-> OrElse(Field(fallback.institute, "institute_code"), Str("00000")),
         name |-> OrElse(Field(fallback.institute, "name"), Str("Unknown")),
         district |-> OrElse(Field(fallback.institute, "district"), Str("Unknown"))],
      resultData |-> [i \in 1..Len(fallback.gpaRecords) |->
                        WebResultEntry(fallback.gpaRecords[i])],
      cgpaData |-> <<>>]]

\* 404: no project and no web service had the student
NotFoundResponse(body, order) ==
  [status |-> 404,
   body |->
     [success |-> FALSE,
      error |-> "Student not found in any database or web API",
      roll |-> Str(body.rollNo),
      regulation |-> Str(body.regulation),
      exam |-> Str(body.program),
      projects_searched |-> order,
      web_apis_tried |-> <<"btebresulthub">>]]

(***************************************************************************)
(* POST /api/search-result.                                                *)
(***************************************************************************)
\* the student row the winner's query resolved with
WinnerStudent(w) ==
  CHOOSE r \in FindStudent(students[w], req.rollNo, req.regulation, req.program) : TRUE

\* StartEnrichment with the grades asked of the first project of the search
\* order, whichever project has won.
StartEnrichmentFirst(s) ==
  /\ gpa' = "pending"
  /\ gpaOf' = search_order[1]
  /\ cq' = [n \in Names |->
              IF n \notin InOrder THEN "none"
              ELSE IF GetClientThrows(n) THEN "error" ELSE "pending"]
  /\ crows' = [n \in Names |-> <<>>]
  /\ cgpa' = "pending"
  /\ cgpaTimer' = "armed"
  /\ clients' = getClient(clients, {s} \cup InOrder)
  /\ created' = createClient(created, clients, {s} \cup InOrder)

\* Both enrichment calls, issued once project s has won: fetchGpaRecords on
\* s, and fetchCgpaRecordsAcrossProjects, which queries every name of the
\* search order against CGPA_TIMEOUT_MS and is itself raced against a timer
\* of CGPA_TIMEOUT_MS.
StartEnrichment(s) ==
  /\ gpa' = "pending"
  /\ gpaOf' = s
  /\ cq' = [n \in Names |->
              IF n \notin InOrder THEN "none"
              ELSE IF GetClientThrows(n) THEN "error" ELSE "pending"]
  /\ crows' = [n \in Names |-> <<>>]
  /\ cgpa' = "pending"
  /\ cgpaTimer' = "armed"
  /\ clients' = getClient(clients, {s} \cup InOrder)
  /\ created' = createClient(created, clients, {s} \cup InOrder)

\* DispatchSettle with Promise.all in the place of Promise.any: the first
\* rejection ends the dispatch
DispatchSettleAll(race2, s) ==
  LET won == pc = "dispatch" /\ race2[s] = "fulfilled"
      lost == pc = "dispatch" /\ race2[s] \in Rejected
  IN  /\ race' = race2
      /\ IF won
         THEN /\ winner' = s
              /\ pc' = "enrich"
              /\ StartEnrichment(s)
              /\ UNCHANGED web
         ELSE /\ pc' = IF lost THEN "fallback" ELSE pc
              /\ web' = IF lost THEN Pending ELSE web
              /\ UNCHANGED <<winner, gpa, gpaOf, cq, crows, cgpa, cgpaTimer, regVars>>
      /\ UNCHANGED <<gpas, cgpas, resp>>

\* DispatchSettle with the search order deciding: at the first fulfilment the
\* first project of the order is taken while its race has not been rejected.
DispatchSettleByOrder(race2, s) ==
  LET won == pc = "dispatch" /\ race2[s] = "fulfilled"
      lost == pc = "dispatch" /\ \A n \in InOrder : race2[n] \in Rejected
      first == IF race2[search_order[1]] \in Rejected THEN s ELSE search_order[1]
  IN  /\ race' = race2
      /\ IF won
         THEN /\ winner' = first
              /\ pc' = "enrich"
              /\ StartEnrichment(first)
              /\ UNCHANGED web
         ELSE /\ pc' = IF lost THEN "fallback" ELSE pc
              /\ web' = IF lost THEN Pending ELSE web
              /\ UNCHANGED <<winner, gpa, gpaOf, cq, crows, cgpa, cgpaTimer, regVars>>
      /\ UNCHANGED <<gpas, cgpas, resp>>

\* The continuation of `await Promise.any(projectPromises)` once the race of
\* name s has settled as in race2: a fulfilment makes s the winner and issues
\* both enrichment calls, the last rejection starts the web fallback.
DispatchSettle(race2, s) ==
  LET won == pc = "dispatch" /\ race2[s] = "fulfilled"
      lost == pc = "dispatch" /\ \A n \in InOrder : race2[n] \in Rejected
  IN  /\ race' = race2
      /\ IF won
         THEN /\ winner' = s
              /\ pc' = "enrich"
              /\ StartEnrichment(s)
              /\ UNCHANGED web
         ELSE /\ pc' = IF lost THEN "fallback" ELSE pc
              /\ web' = IF lost THEN Pending ELSE web
              /\ UNCHANGED <<winner, gpa, gpaOf, cq, crows, cgpa, cgpaTimer, regVars>>
      /\ UNCHANGED <<gpas, cgpas, resp>>

\* EnrichSettle with one catch around both calls: when the grades fail the
\* cumulative entries are dropped with them.
EnrichSettleCoupled(gpa2, gpas2, cgpa2, cgpas2) ==
  /\ gpa' = gpa2
  /\ gpas' = gpas2
  /\ cgpa' = cgpa2
  /\ cgpas' = cgpas2
  /\ IF pc = "enrich" /\ gpa2 # "pending" /\ cgpa2 # "pending"
     THEN /\ pc' = "done"
          /\ resp' = SourceResponse(WinnerStudent(winner), inst[winner], gpas2,
                                    IF gpa2 = "fulfilled" THEN cgpas2 ELSE <<>>)
     ELSE UNCHANGED <<pc, resp>>

\* The continuation of `await Promise.all([...])` once an enrichment call has
\* settled: when both have, the response is sent.
EnrichSettle(gpa2, gpas2, cgpa2, cgpas2) ==
  /\ gpa' = gpa2
  /\ gpas' = gpas2
  /\ cgpa' = cgpa2
  /\ cgpas' = cgpas2
  /\ IF pc = "enrich" /\ gpa2 # "pending" /\ cgpa2 # "pending"
     THEN /\ pc' = "done"
          /\ resp' = SourceResponse(WinnerStudent(winner), inst[winner], gpas2, cgpas2)
     ELSE UNCHANGED <<pc, resp>>

\* Receive with the web fallback issued next to the dispatch
ReceiveEager(body) ==
  /\ pc = "idle"
  /\ req' = body
  /\ IF body.rollNo = "" \/ body.regulation = "" \/ body.program = ""
     THEN /\ pc' = "done"
          /\ resp' = BadRequest
          /\ UNCHANGED <<query, race, regVars, web>>
     ELSE /\ query' = [n \in Names |->
                         IF n \notin InOrder THEN "none"
                         ELSE IF GetClientThrows(n) THEN "failed" ELSE "student"]
          /\ race' = [n \in Names |->
                        IF n \notin InOrder THEN "none"
                        ELSE IF GetClientThrows(n) THEN "error" ELSE "pending"]
          /\ clients' = getClient(clients, InOrder)
          /\ created' = createClient(created, clients, InOrder)
          /\ pc' = IF \E n \in InOrder : ~GetClientThrows(n)
                   THEN "dispatch" ELSE "fallback"
          /\ web' = Pending
          /\ UNCHANGED resp
  /\ UNCHANGED <<cfgVars, adminVars, inst, winner, gpa, gpaOf, gpas, cq, crows, cgpa,
                 cgpaTimer, cgpas, normVars>>

\* the handler up to its first await: validation, then one query per name of
\* the search order, each raced against PROJECT_TIMEOUT_MS
Receive(body) ==
  /\ pc = "idle"
  /\ req' = body
  /\ IF body.rollNo = "" \/ body.regulation = "" \/ body.program = ""
     THEN /\ pc' = "done"
          /\ resp' = BadRequest
          /\ UNCHANGED <<query, race, regVars, web>>
     ELSE /\ query' = [n \in Names |->
                         IF n \notin InOrder THEN "none"
                         ELSE IF GetClientThrows(n) THEN "failed" ELSE "student"]
          /\ race' = [n \in Names |->
                        IF n \notin InOrder THEN "none"
                        ELSE IF GetClientThrows(n) THEN "error" ELSE "pending"]
          /\ clients' = getClient(clients, InOrder)
          /\ created' = createClient(created, clients, InOrder)
          /\ pc' = IF \E n \in InOrder : ~GetClientThrows(n)
                   THEN "dispatch" ELSE "fallback"
          /\ web' = IF \E n \in InOrder : ~GetClientThrows(n)
                    THEN NotIssued ELSE Pending
          /\ UNCHANGED resp
  /\ UNCHANGED <<cfgVars, adminVars, inst, winner, gpa, gpaOf, gpas, cq, crows, cgpa,
                 cgpaTimer, cgpas, normVars>>

\* StudentReply with the race fulfilled as soon as the student is found, the
\* institutes query left behind.
StudentReplyEarly(s, ok) ==
  /\ query[s] = "student"
  /\ LET found == FindStudent(students[s], req.rollNo, req.regulation, req.program)
         outcome == IF ~ok \/ Cardinality(found) > 1 THEN "failed"
                    ELSE IF found = {} THEN "miss" ELSE "institute"
         settled == IF outcome = "failed" THEN "error"
                    ELSE IF outcome = "miss" THEN "not_found" ELSE "fulfilled"
     IN  /\ query' = [query EXCEPT ![s] = outcome]
         /\ DispatchSettle(
              [race EXCEPT ![s] = IF race[s] = "pending" THEN settled ELSE race[s]], s)
  /\ UNCHANGED <<cfgVars, adminVars, req, inst, normVars>>

\* the students query of project s answers: an error, no row, or the row
StudentReply(s, ok) ==
  /\ query[s] = "student"
  /\ LET found == FindStudent(students[s], req.rollNo, req.regulation, req.program)
         outcome == IF ~ok \/ Cardinality(found) > 1 THEN "failed"
                    ELSE IF found = {} THEN "miss" ELSE "institute"
         settled == IF outcome = "failed" THEN "error"
                    ELSE IF outcome = "miss" THEN "not_found" ELSE "pending"
     IN  /\ query' = [query EXCEPT ![s] = outcome]
         /\ DispatchSettle(
              [race EXCEPT ![s] = IF race[s] = "pending" THEN settled ELSE race[s]], s)
  /\ UNCHANGED <<cfgVars, adminVars, req, inst, normVars>>

\* InstituteReply without Promise.race: a result that arrives after the timer
\* still fulfils
InstituteReplyLate(s, institute) ==
  /\ query[s] = "institute"
  /\ query' = [query EXCEPT ![s] = "hit"]
  /\ inst' = [inst EXCEPT ![s] = institute]
  /\ DispatchSettle([race EXCEPT ![s] = "fulfilled"], s)
  /\ UNCHANGED <<cfgVars, adminVars, req, normVars>>

\* the institutes query of project s answers: queryStudentInProject resolves
InstituteReply(s, institute) ==
  /\ query[s] = "institute"
  /\ query' = [query EXCEPT ![s] = "hit"]
  /\ inst' = [inst EXCEPT ![s] = institute]
  /\ DispatchSettle(
       [race EXCEPT ![s] = IF race[s] = "pending" THEN "fulfilled" ELSE race[s]], s)
  /\ UNCHANGED <<cfgVars, adminVars, req, normVars>>

\* ProjectTimeout whose rejection never reaches Promise.any
ProjectTimeoutUnnoticed(s) ==
  /\ race[s] = "pending"
  /\ race' = [race EXCEPT ![s] = "timeout"]
  /\ UNCHANGED <<cfgVars, adminVars, regVars, pc, req, query, inst, winner, gpa,
                 gpaOf, gpas, cq, crows, cgpa, cgpaTimer, cgpas, web, resp, normVars>>

\* the PROJECT_TIMEOUT_MS timer of project s fires before its query settles
ProjectTimeout(s) ==
  /\ race[s] = "pending"
  /\ DispatchSettle([race EXCEPT ![s] = "timeout"], s)
  /\ UNCHANGED <<cfgVars, adminVars, req, query, inst, normVars>>

\* the gpa_records query of the winner answers: an error, or its rows; an
\* answer that comes after the GPA_TIMEOUT_MS timer is dropped
GpaReply(ok, rows) ==
  /\ gpa \in {"pending", "timeout"}
  /\ IF gpa = "timeout" THEN EnrichSettle("late", gpas, cgpa, cgpas)
     ELSE IF ok THEN EnrichSettle("fulfilled", rows, cgpa, cgpas)
     ELSE EnrichSettle("error", <<>>, cgpa, cgpas)
  /\ UNCHANGED <<cfgVars, adminVars, regVars, req, query, race, inst, winner, gpaOf,
                 cq, crows, cgpaTimer, web, normVars>>

\* the GPA_TIMEOUT_MS timer fires before the gpa_records query settles
GpaTimeout ==
  /\ gpa = "pending"
  /\ EnrichSettle("timeout", <<>>, cgpa, cgpas)
  /\ UNCHANGED <<cfgVars, adminVars, regVars, req, query, race, inst, winner, gpaOf,
                 cq, crows, cgpaTimer, web, normVars>>

\* CgpaSettle with the race ended by the first answer of any kind: an empty
\* or failed answer gives the empty sequence while other races are pending.
CgpaSettleFirst(cq2, s, rows) ==
  /\ cq' = cq2
  /\ crows' = IF cq2[s] = "fulfilled"
              THEN [crows EXCEPT ![s] = [i \in 1..Len(rows) |-> CgpaEntry(rows[i])]]
              ELSE crows
  /\ IF cgpa = "pending" /\ cq2[s] = "fulfilled"
     THEN EnrichSettle(gpa, gpas, "fulfilled", [i \in 1..Len(rows) |-> CgpaEntry(rows[i])])
     ELSE IF cgpa = "pending"
     THEN EnrichSettle(gpa, gpas, "empty", <<>>)
     ELSE EnrichSettle(gpa, gpas, cgpa, cgpas)

\* The continuation of `await Promise.any(queries)` once the cgpa race of
\* name s has settled as in cq2.
CgpaSettle(cq2, s, rows) ==
  /\ cq' = cq2
  /\ crows' = IF cq2[s] = "fulfilled"
              THEN [crows EXCEPT ![s] = [i \in 1..Len(rows) |-> CgpaEntry(rows[i])]]
              ELSE crows
  /\ IF cgpa = "pending" /\ cq2[s] = "fulfilled"
     THEN EnrichSettle(gpa, gpas, "fulfilled", [i \in 1..Len(rows) |-> CgpaEntry(rows[i])])
     ELSE IF cgpa = "pending" /\ \A n \in InOrder : cq2[n] \in {"empty", "error", "timeout"}
     THEN EnrichSettle(gpa, gpas, "empty", <<>>)
     ELSE EnrichSettle(gpa, gpas, cgpa, cgpas)

\* the cgpa_records query of project s answers: an error, or its rows
CgpaReply(s, ok, rows) ==
  /\ cq[s] = "pending"
  /\ CgpaSettle(
       [cq EXCEPT ![s] = IF ~ok THEN "error"
                         ELSE IF Len(rows) > 0 THEN "fulfilled" ELSE "empty"], s, rows)
  /\ UNCHANGED <<cfgVars, adminVars, regVars, req, query, race, inst, winner, gpaOf,
                 cgpaTimer, web, normVars>>

\* the CGPA_TIMEOUT_MS timer of project s fires before its cgpa query settles
CgpaTimeout(s) ==
  /\ cq[s] = "pending"
  /\ CgpaSettle([cq EXCEPT ![s] = "timeout"], s, <<>>)
  /\ UNCHANGED <<cfgVars, adminVars, regVars, req, query, race, inst, winner, gpaOf,
                 cgpaTimer, web, normVars>>

\* The CGPA_TIMEOUT_MS timer around fetchCgpaRecordsAcrossProjects fires.  It
\* has the delay of the timers of the projects and is armed after them in the
\* same tick, so it fires after them: no cgpa race is pending any more.
CgpaOuterTimeout ==
  /\ cgpaTimer = "armed"
  /\ \A n \in InOrder : cq[n] # "pending"
  /\ cgpaTimer' = "fired"
  /\ IF cgpa = "pending" THEN EnrichSettle(gpa, gpas, "timeout", <<>>)
                         ELSE EnrichSettle(gpa, gpas, cgpa, cgpas)
  /\ UNCHANGED <<cfgVars, adminVars, regVars, req, query, race, inst, winner, gpaOf,
                 cq, crows, web, normVars>>

\* webApiFallback builds its url before its try block: for a roll that
\* encodeURIComponent refuses, the call rejects and so does the handler, with
\* nothing to catch it.  Express 5 answers a rejected handler with its error
\* response; Express 4 does not answer at all.
WebThrow(answered) ==
  /\ pc = "fallback"
  /\ web = Pending
  /\ EncodeThrows(req.rollNo)
  /\ web' = [kind |-> "thrown"]
  /\ IF answered THEN pc' = "done" /\ resp' = ServerError
                 ELSE pc' = "rejected" /\ UNCHANGED resp
  /\ UNCHANGED <<cfgVars, adminVars, regVars, req, query, race, inst, winner, gpa,
                 gpaOf, gpas, cq, crows, cgpa, cgpaTimer, cgpas, normVars>>

\* the web service answers, or axios gives up: the handler responds
WebReply(reply) ==
  /\ pc = "fallback"
  /\ web = Pending
  /\ ~EncodeThrows(req.rollNo)
  /\ web' = reply
  /\ LET fallback == webApiFallback(reply, req.rollNo, req.regulation, req.program)
     IN  resp' = IF fallback # Null THEN WebResponse(fallback, search_order)
                 ELSE NotFoundResponse(req, search_order)
  /\ pc' = "done"
  /\ UNCHANGED <<cfgVars, adminVars, regVars, req, query, race, inst, winner, gpa,
                 gpaOf, gpas, cq, crows, cgpa, cgpaTimer, cgpas, normVars>>

(***************************************************************************)
(* The specification of one request.                                       *)
(***************************************************************************)
Init ==
  /\ search_order \in SearchOrders
  /\ badUrl \in {{}} \cup {{p} : p \in Projects}
  /\ students \in [Projects -> SUBSET {BaseRow}]
  /\ current_project = NoProject
  /\ clients = {}
  /\ created = [n \in Names |-> 0]
  /\ admin = NoAdmin
  /\ pc = "idle"
  /\ req = NoValue
  /\ query = [n \in Names |-> "none"]
  /\ race = [n \in Names |-> "none"]
  /\ inst = [n \in Names |-> Undefined]
  /\ winner = NoWinner
  /\ gpa = "none"
  /\ gpaOf = NoWinner
  /\ gpas = <<>>
  /\ cq = [n \in Names |-> "none"]
  /\ crows = [n \in Names |-> <<>>]
  /\ cgpa = "none"
  /\ cgpaTimer = "none"
  /\ cgpas = <<>>
  /\ web = NotIssued
  /\ resp = NoResponse
  /\ shape = "none"
  /\ input = NoValue
  /\ output = NoValue

Next ==
  \/ \E body \in Bodies : Receive(body)
  \/ \E s \in Names, ok \in BOOLEAN : StudentReply(s, ok)
  \/ \E s \in Names, i \in InstituteResults : InstituteReply(s, i)
  \/ \E s \in Names : ProjectTimeout(s)
  \/ \E ok \in BOOLEAN, rows \in GpaResults : GpaReply(ok, rows)
  \/ GpaTimeout
  \/ \E s \in Names, ok \in BOOLEAN, rows \in CgpaResults : CgpaReply(s, ok, rows)
  \/ \E s \in Names : CgpaTimeout(s)
  \/ CgpaOuterTimeout
  \/ \E reply \in WebReplies : WebReply(reply)
  \/ \E answered \in BOOLEAN : WebThrow(answered)

Spec == Init /\ [][Next]_vars

\* ---- the registry and health routes ----

\* `config.current_project || config.search_order[0]`
ActiveName ==
  IF current_project # NoProject THEN current_project
  ELSE IF Len(search_order) > 0 THEN search_order[1]
  ELSE NoProject

\* A key every plain object inherits: config.projects is a plain object, so
\* config.projects["constructor"] is Object, which is truthy.
InheritedKeys == {"constructor"}

\* the names a switch call may carry
SwitchNames == Names \cup InheritedKeys

\* `config.projects[name]` is truthy
ProjectLookup(name) == name \in Projects \/ name \in InheritedKeys

\* Switch with the clients map emptied, so that the new current project
\* starts from a fresh client.
SwitchDropsClients(name) ==
  /\ IF ~ProjectLookup(name)
     THEN /\ admin' = [op |-> "switch", status |-> 404, name |-> name]
          /\ UNCHANGED <<current_project, clients>>
     ELSE /\ current_project' = name
          /\ clients' = {}
          /\ admin' = [op |-> "switch", status |-> 200, name |-> name]
  /\ UNCHANGED <<cfgVars, created, reqVars, normVars>>

\* POST /api/projects/:project/switch
Switch(name) ==
  /\ IF ~ProjectLookup(name)
     THEN /\ admin' = [op |-> "switch", status |-> 404, name |-> name]
          /\ UNCHANGED current_project
     ELSE /\ current_project' = name
          /\ admin' = [op |-> "switch", status |-> 200, name |-> name]
  /\ UNCHANGED <<cfgVars, regVars, reqVars, normVars>>

\* GET /api/projects
ListProjects ==
  /\ admin' = [op |-> "list", status |-> 200,
               body |-> [p \in Projects |->
                          [name |-> p, is_active |-> (p = current_project)]]]
  /\ UNCHANGED <<cfgVars, current_project, regVars, reqVars, normVars>>

\* GET /health, with the answer of the programs query (ok or an error)
Health(ok) ==
  /\ LET name == ActiveName
     IN  IF name = NoProject \/ GetClientThrows(name)
         THEN /\ admin' = [op |-> "health", status |-> 500]
              /\ UNCHANGED regVars
         ELSE /\ clients' = getClient(clients, {name})
              /\ created' = createClient(created, clients, {name})
              /\ admin' = IF ok THEN [op |-> "health", status |-> 200,
                                      current_project |-> name,
                                      available_projects |-> Projects]
                          ELSE [op |-> "health", status |-> 500]
  /\ UNCHANGED <<cfgVars, current_project, reqVars, normVars>>

\* GET /api/regulations/:program, with the answer of the regulations query
Regulations(ok) ==
  /\ LET name == ActiveName
     IN  IF name = NoProject \/ GetClientThrows(name)
         THEN /\ admin' = [op |-> "regulations", status |-> 500]
              /\ UNCHANGED regVars
         ELSE /\ clients' = getClient(clients, {name})
              /\ created' = createClient(created, clients, {name})
              /\ admin' = [op |-> "regulations", status |-> IF ok THEN 200 ELSE 500]
  /\ UNCHANGED <<cfgVars, current_project, reqVars, normVars>>

\* the registry and health routes on their own
RegistryNext ==
  \/ \E name \in SwitchNames : Switch(name)
  \/ ListProjects
  \/ \E ok \in BOOLEAN : Health(ok)
  \/ \E ok \in BOOLEAN : Regulations(ok)

RegistrySpec == Init /\ [][RegistryNext]_vars

\* The configurations the two compositions below start from: primary holds
\* the record of BaseRow and secondary does not; the search order and the
\* projects without a usable url are as in Init.
OpsInit ==
  /\ Init
  /\ students = [p \in Projects |-> IF p = "primary" THEN {BaseRow} ELSE {}]

\* a search request with switch calls arriving at any point of it
SwitchNext ==
  \/ \E name \in SwitchNames : Switch(name)
  \/ Next

SwitchSpec == OpsInit /\ [][SwitchNext]_vars

\* a search request with health and regulations calls at any point of it
CacheNext ==
  \/ \E ok \in BOOLEAN : Health(ok)
  \/ \E ok \in BOOLEAN : Regulations(ok)
  \/ Next

CacheSpec == OpsInit /\ [][CacheNext]_vars

\* One request under the event loop: a timer that is armed fires unless the
\* promise it races settles first, and axios settles within WEB_TIMEOUT_MS.
LiveSpec ==
  /\ Spec
  /\ \A s \in Names : WF_vars(ProjectTimeout(s))
  /\ \A s \in Names : WF_vars(CgpaTimeout(s))
  /\ WF_vars(GpaTimeout)
  /\ WF_vars(CgpaOuterTimeout)
  /\ WF_vars(\E reply \in WebReplies : WebReply(reply))
  /\ WF_vars(\E answered \in BOOLEAN : WebThrow(answered))

(***************************************************************************)
(* The record mappings on enumerated inputs.                               *)
(***************************************************************************)
\* rows of gpa_records: the columns are null when not set
NormSourceRows ==
  [semester : {Null, Num(100), Num(300)},
   gpa : {Null, Num(0), Num(350)},
   is_reference : {Null, Bool(FALSE), Bool(TRUE)},
   ref_subjects : {Null, Arr(<<>>), Arr(<<"25711">>)},
   created_at : {Null, Str("2024-03-01T00:00:00Z")}]

\* entries of the web service: a bare grade value, or a nested grade object
NormWebEntries ==
  [semester : {Undefined, Num(300), Str("2")},
   result : {Undefined, Null, Num(350), Str("ref"), Str("3.50"),
             GradeObj(Num(325), Arr(<<"25711">>)), GradeObj(Undefined, Arr(<<"25711">>)),
             GradeObj(Null, Undefined), GradeObj(Str("ref"), Undefined)},
   passed : {Undefined, Bool(FALSE), Bool(TRUE)},
   publishedAt : {Undefined, Str("2024-03-01T00:00:00Z")}]

NormInit ==
  /\ search_order = <<>>
  /\ badUrl = {}
  /\ students = [p \in Projects |-> {}]
  /\ current_project = NoProject
  /\ clients = {}
  /\ created = [n \in Names |-> 0]
  /\ admin = NoAdmin
  /\ pc = "idle"
  /\ req = NoValue
  /\ query = [n \in Names |-> "none"]
  /\ race = [n \in Names |-> "none"]
  /\ inst = [n \in Names |-> Undefined]
  /\ winner = NoWinner
  /\ gpa = "none"
  /\ gpaOf = NoWinner
  /\ gpas = <<>>
  /\ cq = [n \in Names |-> "none"]
  /\ crows = [n \in Names |-> <<>>]
  /\ cgpa = "none"
  /\ cgpaTimer = "none"
  /\ cgpas = <<>>
  /\ web = NotIssued
  /\ resp = NoResponse
  /\ \/ shape = "source" /\ input \in NormSourceRows
     \/ shape = "web" /\ input \in NormWebEntries
  /\ output = NoValue

\* lines 268-274 applied to a row
NormalizeSource ==
  /\ shape = "source"
  /\ output = NoValue
  /\ output' = SourceResultEntry(input)
  /\ UNCHANGED <<cfgVars, adminVars, regVars, reqVars, shape, input>>

\* lines 172-178, then lines 297-303, applied to an entry
NormalizeWeb ==
  /\ shape = "web"
  /\ output = NoValue
  /\ output' = WebResultEntry(WebGpaRecord(input))
  /\ UNCHANGED <<cfgVars, adminVars, regVars, reqVars, shape, input>>

NormNext == NormalizeSource \/ NormalizeWeb

NormSpec == NormInit /\ [][NormNext]_vars

(***************************************************************************)
(* Properties of the dispatch.                                             *)
(***************************************************************************)
\* the request passed validation and its queries were issued
Dispatched ==
  pc \in {"dispatch", "enrich", "fallback", "rejected"} \/ (pc = "done" /\ resp # BadRequest)

\* the response was built from the winner of the dispatch
SourceAnswered == pc = "done" /\ resp.status = 200 /\ winner # NoWinner

\* C1: the dispatch selects a winner only if a source of the search order
\* holds a record that matches the program, the regulation and the roll of
\* the request; when no source holds one, no winner is ever selected.
WinnerOnlyIfSomeSourceHolds ==
  winner # NoWinner => \E n \in InOrder : Holds(n, req)

\* a winner was selected while another source of the order holds no match
WinnerAmongNonHolders ==
  /\ winner # NoWinner
  /\ \E n \in InOrder \cap Projects : ~Holds(n, req) /\ query[n] = "miss"

\* C2: a source whose timer fired first never becomes the winner, whatever
\* its query returns later; the winner is chosen once, it is the first source
\* whose query fulfilled before its timer, and it is never replaced.
TimedOutNeverWins ==
  [][/\ \A s \in Names :
          race[s] = "timeout" => race'[s] = "timeout" /\ winner' # s
     /\ winner' # winner =>
          /\ winner = NoWinner
          /\ \A n \in Names : race[n] # "fulfilled"
          /\ race'[winner'] = "fulfilled"]_vars

\* a source timed out, its match arrived later, and the response was sent
\* without it
LateMatchDiscarded ==
  /\ pc = "done"
  /\ \E s \in InOrder : race[s] = "timeout" /\ query[s] = "hit" /\ winner # s

\* C3: a source that timed out, failed (an unknown or unconstructible one
\* included) or found nothing is only a miss: whenever some source of the
\* order fulfilled before its timer there is a winner, the fallback is not
\* issued and the response is the success built from the winner.
MissDoesNotFailDispatch ==
  (\E n \in InOrder : race[n] = "fulfilled") =>
     /\ winner # NoWinner
     /\ pc \in {"enrich", "done"}
     /\ web = NotIssued
     /\ pc = "done" => resp.status = 200 /\ resp.body.success

\* a source won although the unknown name of the order failed and another
\* source failed, missed or timed out
WinnerDespiteMisses ==
  /\ SourceAnswered
  /\ \E m \in InOrder \ {winner} : race[m] \in Rejected
  /\ \E m \in InOrder : GetClientThrows(m) /\ race[m] = "error"

\* C4: the dispatch terminates: it waits only while some source's race is
\* pending, once every timer has fired it has resolved without a winner,
\* and as timers fire it always leaves the dispatch.
DispatchTerminates ==
  /\ [](pc = "dispatch" => \E n \in InOrder : race[n] = "pending")
  /\ []((Dispatched /\ \A n \in InOrder : race[n] = "timeout") =>
          winner = NoWinner /\ web # NotIssued)
  /\ (pc = "dispatch") ~> (pc # "dispatch")

\* no source ever answered, every timer fired, and the dispatch was left
SilentSourcesTimedOut ==
  /\ InOrder # {}
  /\ \A n \in InOrder : race[n] = "timeout" /\ query[n] = "student"
  /\ pc \in {"fallback", "done"}

\* C5: the web fallback is issued if and only if the dispatch has no winner:
\* never when a source won, and always once every source of the order has
\* missed, failed or timed out.
FallbackIffNoWinner ==
  /\ web # NotIssued => winner = NoWinner
  /\ web # NotIssued <=> (Dispatched /\ \A n \in InOrder : race[n] \in Rejected)

\* the fallback was issued after two sources missed in different ways
FallbackAfterAllMissed ==
  /\ web # NotIssued
  /\ \E a, b \in InOrder : race[a] = "timeout" /\ race[b] = "not_found"

(***************************************************************************)
(* Properties of the fallback and of the responses.                        *)
(***************************************************************************)
\* the web service has replied, or axios has given up
WebSettled == web.kind \in {"failure", "response"}

\* a payload with no roll and no resultData
EmptyPayload(data) ==
  Field(data, "roll") = Undefined /\ Field(data, "resultData") = Undefined

\* C6: every transport failure, every status other than 200 and every empty
\* payload of the web service ends in the not-found response, an HTTP 200
\* reply with an empty payload included.
EmptyPayloadIsNotFound ==
  (pc = "done" /\ WebSettled) =>
     ((web.kind = "failure" \/ web.status # 200 \/ EmptyPayload(web.data)) =>
        resp = NotFoundResponse(req, search_order))

\* the grade value of the input of the mapping is missing
GradeMissing ==
  IF shape = "source" THEN LooseNull(input.gpa)
  ELSE IF IsGradeObj(input.result) THEN LooseNull(input.result.gpa)
  ELSE LooseNull(input.result)

\* C7: for a row of a configured source, for a web entry with a bare grade
\* and for a web entry with a nested grade object, a missing grade value is
\* emitted as "ref", and every entry emitted as "ref" has passed = false.
MissingGradeIsRefAndNotPassed ==
  output # NoValue =>
     /\ GradeMissing => output.gpa = "ref"
     /\ output.gpa = "ref" => output.passed = FALSE

\* C8: when no source matches and the web fallback fails (the transport
\* fails, the status is not 200, or the call itself throws), the request ends
\* with the 404 not-found response: success = false, projects_searched is
\* the search order, which is every source that was attempted, and
\* web_apis_tried names the fallback.
ExhaustedIsStructuredNotFound ==
  (/\ pc \in {"done", "rejected"}
   /\ \/ web.kind \in {"failure", "thrown"}
      \/ (web.kind = "response" /\ web.status # 200)) =>
     /\ resp.status = 404
     /\ resp.body.success = FALSE
     /\ resp.body.roll = Str(req.rollNo)
     /\ resp.body.projects_searched = search_order
     /\ {resp.body.projects_searched[i] : i \in DOMAIN resp.body.projects_searched}
          = {n \in Names : race[n] # "none"}
     /\ \A n \in InOrder : race[n] \in Rejected
     /\ resp.body.web_apis_tried = <<"btebresulthub">>

\* C9: when source a holds a matching record and source b does not, the
\* response carries a provenance marker that names a, and the cgpa race has
\* queried both a and b.
ProvenanceNamesWinner ==
  \A a, b \in InOrder \cap Projects :
     (SourceAnswered /\ winner = a /\ Holds(a, req) /\ ~Holds(b, req)) =>
        /\ Field(resp.body, "found_in_project") = Str(a)
        /\ cq[a] # "none"
        /\ cq[b] # "none"

\* the web service replied 200 with a payload that has resultData
ValidPayload ==
  /\ web.kind = "response"
  /\ web.status = 200
  /\ IsArr(Field(web.data, "resultData"))

\* C10: when no source matches and the web service returns a valid payload,
\* the response has success = true, its provenance names the web fallback
\* and no configured source, and every resultData entry has the defaults of
\* the fallback: semester 1 when absent, the reference subjects empty unless
\* a list is supplied, the sentinel time when the publication time is absent.
FallbackResultMapped ==
  (pc = "done" /\ ValidPayload) =>
     /\ winner = NoWinner
     /\ resp.status = 200
     /\ resp.body.success
     /\ resp.body.found_in_project = Str("web_api_btebresulthub")
     /\ resp.body.source = Str("web_api")
     /\ \A n \in Names : resp.body.found_in_project # Str(n)
     /\ Len(resp.body.resultData) = Len(web.data.resultData.arr)
     /\ \A i \in DOMAIN resp.body.resultData :
          LET e == web.data.resultData.arr[i]
              o == resp.body.resultData[i]
          IN  /\ e.semester = Undefined => o.semester = "1"
              /\ o.result.ref_subjects =
                   IF IsGradeObj(e.result) /\ IsArr(e.result.ref_subjects)
                   THEN e.result.ref_subjects.arr ELSE <<>>
              /\ e.publishedAt = Undefined => o.publishedAt = Str(SENTINEL_TIME)

\* the web fallback answered with an entry that has no semester and no
\* publication time, after every source missed
FallbackAnsweredWithDefaults ==
  /\ pc = "done"
  /\ ValidPayload
  /\ InOrder # {}
  /\ \E i \in DOMAIN web.data.resultData.arr :
       /\ web.data.resultData.arr[i].semester = Undefined
       /\ web.data.resultData.arr[i].publishedAt = Undefined
  /\ resp.body.success

\* C11: the gpa_records query goes to the winner and to no other project, it
\* is issued exactly when there is a winner, and when it fails, or is not
\* answered before its timer fires, the response is a success with an empty
\* resultData.
GradesFromWinnerOnly ==
  /\ gpaOf = winner
  /\ (gpa = "none") = (winner = NoWinner)
  /\ (SourceAnswered /\ gpa \in {"error", "timeout", "late"}
        => /\ resp.status = 200
           /\ resp.body.success = TRUE
           /\ resp.body.resultData = <<>>)

\* the second project of the order has won and its grades did not come
GradeFetchFailedAfterWin ==
  /\ SourceAnswered
  /\ Len(search_order) = 2
  /\ winner = search_order[2]
  /\ gpa \in {"error", "timeout"}
  /\ resp.body.resultData = <<>>

\* a cgpa race that has ended without entries
CgpaRejected == {"empty", "error", "timeout"}

\* C12: once there is a winner a cgpa race runs on every name of the search
\* order; the cumulative result is the entries of the race that fulfilled
\* first, empty, failed and timed out races leave the others running, and the
\* result is empty exactly when every race ended without entries.
CumulativeRaceFirstNonEmpty ==
  /\ [](winner # NoWinner =>
        /\ \A n \in InOrder : cq[n] # "none"
        /\ (cgpa = "pending") =
             ((\E n \in InOrder : cq[n] = "pending")
              /\ (\A n \in InOrder : cq[n] # "fulfilled"))
        /\ (cgpa = "fulfilled") = (\E n \in InOrder : cq[n] = "fulfilled")
        /\ (cgpa = "fulfilled" =>
              \E n \in InOrder : cq[n] = "fulfilled" /\ cgpas = crows[n] /\ cgpas # <<>>)
        /\ (cgpa # "pending" =>
              ((cgpas = <<>>) = (\A n \in InOrder : cq[n] \in CgpaRejected)))
        /\ (SourceAnswered => resp.body.cgpaData = cgpas))
  /\ [][\A s \in InOrder :
          (cq[s] = "pending" /\ cq'[s] = "fulfilled"
           /\ \A n \in InOrder : cq[n] # "fulfilled")
          => cgpas' = crows'[s]]_vars
  /\ [][cgpa = "fulfilled" => cgpa' = cgpa /\ cgpas' = cgpas]_vars

\* the winner's own cgpa race gave nothing and the entries of the response
\* are those of the other project
CumulativeFromOtherSource ==
  /\ SourceAnswered
  /\ Len(search_order) = 2
  /\ \E n \in InOrder :
       /\ n # winner
       /\ cq[winner] \in {"empty", "error"}
       /\ cq[n] = "fulfilled"
       /\ resp.body.cgpaData = crows[n]
       /\ crows[n] # <<>>

\* C13: both enrichment calls are issued in the step that finds the winner
\* and in no other; a step of the grade fetch leaves the cumulative races and
\* their result alone, and a step of the cumulative races leaves the grades
\* alone; the response carries each result in its own field, whatever the
\* other call came to and whichever settled first.
EnrichmentIsolated ==
  /\ []((gpa = "none") = (winner = NoWinner) /\ (cgpa = "none") = (winner = NoWinner))
  /\ [][winner # NoWinner /\ gpa' # gpa
          => cgpa' = cgpa /\ cgpas' = cgpas /\ cq' = cq /\ crows' = crows]_vars
  /\ [][winner # NoWinner /\ (cgpa' # cgpa \/ cq' # cq)
          => gpa' = gpa /\ gpas' = gpas]_vars
  /\ [](SourceAnswered =>
          /\ resp.body.resultData = [i \in 1..Len(gpas) |-> SourceResultEntry(gpas[i])]
          /\ resp.body.cgpaData = cgpas
          /\ (gpa # "fulfilled" => gpas = <<>>)
          /\ (cgpa # "fulfilled" => cgpas = <<>>))

\* the grade fetch failed and the cumulative entries are in the response
GradesFailedCumulativeKept ==
  /\ SourceAnswered
  /\ gpa \in {"error", "timeout"}
  /\ cgpa = "fulfilled"
  /\ resp.body.resultData = <<>>
  /\ resp.body.cgpaData # <<>>

\* C14: a switch to a name that is not a configured project answers 404 and
\* leaves current_project, the configuration and the clients as they were; a
\* switch to a configured project answers 200 and makes it current_project;
\* nothing but such a switch changes current_project; a projects list marks
\* exactly current_project as active and a healthy /health reports it.
SwitchSetsCurrentOrFails ==
  /\ [][admin' # admin /\ admin'.op = "switch"
          => IF admin'.name \in Projects
             THEN admin'.status = 200 /\ current_project' = admin'.name
             ELSE /\ admin'.status = 404
                  /\ UNCHANGED <<current_project, cfgVars, regVars>>]_vars
  /\ [][current_project' # current_project
          => /\ admin' = [op |-> "switch", status |-> 200, name |-> current_project']
             /\ current_project' \in Projects]_vars
  /\ [](admin.op = "list" =>
          \A p \in Projects : admin.body[p].is_active = (p = current_project))
  /\ [](admin.op = "health" /\ admin.status = 200 /\ current_project # NoProject
          => admin.current_project = current_project)

\* C15: a step that changes current_project or answers a switch call leaves
\* the request, the configuration and the clients as they were; the
\* projects queried are those of the search order, the winner is one of them
\* that holds the record, and the response is built from the winner's data,
\* or from the answer of the web service, whatever current_project is.
SwitchLeavesResolutionAlone ==
  /\ [][current_project' # current_project \/ admin' # admin
          => UNCHANGED <<cfgVars, regVars, reqVars>>]_vars
  /\ [](Dispatched => \A n \in Names : (race[n] # "none") = (n \in InOrder))
  /\ [](winner # NoWinner =>
          /\ winner \in InOrder
          /\ Holds(winner, req)
          /\ gpaOf = winner
          /\ \A n \in Names : (cq[n] # "none") = (n \in InOrder))
  /\ [](pc = "done" /\ resp \notin {BadRequest, ServerError} =>
          resp = IF winner # NoWinner
                 THEN SourceResponse(WinnerStudent(winner), inst[winner], gpas, cgpas)
                 ELSE IF webApiFallback(web, req.rollNo, req.regulation, req.program) # Null
                 THEN WebResponse(
                        webApiFallback(web, req.rollNo, req.regulation, req.program),
                        search_order)
                 ELSE NotFoundResponse(req, search_order))

\* current_project has been switched to the project that lost the dispatch,
\* and the response is the winner's
SwitchedToLoserWinnerAnswered ==
  /\ SourceAnswered
  /\ Len(search_order) = 2
  /\ current_project \in InOrder
  /\ current_project # winner
  /\ resp.body.roll = Str(req.rollNo)

\* C16: no project has more than one client built for it, the clients map
\* holds exactly the projects a client was built for, all of them configured
\* projects that a search or a health or regulations call has resolved, a
\* client is never removed or rebuilt, and resolving a name that is not
\* configured fails the query and adds nothing.
ClientBuiltAtMostOnce ==
  /\ [](\A n \in Names :
          /\ created[n] <= 1
          /\ (created[n] = 1) = (n \in clients))
  /\ [](clients \subseteq Projects \ badUrl)
  /\ [](clients \subseteq
          (IF pc = "idle" THEN {} ELSE InOrder)
            \cup (IF admin = NoAdmin THEN {} ELSE {ActiveName}))
  /\ [](Dispatched => \A n \in InOrder \ Projects : race[n] = "error")
  /\ [](Dispatched => InOrder \cap (Projects \ badUrl) \subseteq clients)
  /\ [][clients \subseteq clients' /\ \A n \in Names : created'[n] >= created[n]]_vars

\* primary has been resolved by the dispatch, by both enrichment calls and by
\* a health call, and one client was built for it
OneClientAcrossPhases ==
  /\ SourceAnswered
  /\ winner = "primary"
  /\ gpa = "fulfilled"
  /\ cq["primary"] = "fulfilled"
  /\ admin.op = "health"
  /\ admin.status = 200
  /\ admin.current_project = "primary"
  /\ created["primary"] = 1

\* C17: the cgpaData of a response, and every sequence the cumulative races
\* hold, has at most CGPA_LIMIT entries.
CumulativeCapped ==
  /\ (pc = "done" /\ resp.status = 200 => Len(resp.body.cgpaData) <= CGPA_LIMIT)
  /\ Len(cgpas) <= CGPA_LIMIT
  /\ \A n \in Names : Len(crows[n]) <= CGPA_LIMIT

\* the answering project holds more rows than the limit and the response has
\* CGPA_LIMIT entries
CumulativeAtLimit ==
  /\ SourceAnswered
  /\ Len(resp.body.cgpaData) = CGPA_LIMIT
  /\ resp.body.cgpaData[CGPA_LIMIT].semester = Num(100 * CGPA_LIMIT)

\* C18: the project whose race is the first to fulfil becomes the winner in
\* that very step, wherever it stands in the search order; the winner is never
\* replaced, also when another project that holds the record fulfils later;
\* and the response is built from the winner's record.
FirstCompletionWins ==
  /\ [][\A s \in InOrder :
          (race[s] = "pending" /\ race'[s] = "fulfilled"
           /\ \A n \in InOrder : race[n] # "fulfilled")
          => winner = NoWinner /\ winner' = s]_vars
  /\ [][winner # NoWinner => winner' = winner]_vars
  /\ [](winner # NoWinner => race[winner] = "fulfilled" /\ Holds(winner, req))
  /\ [](SourceAnswered =>
          resp = SourceResponse(WinnerStudent(winner), inst[winner], gpas, cgpas))

\* both projects hold the record and both fulfilled; the second of the search
\* order has won
LaterInOrderWonTheRace ==
  /\ SourceAnswered
  /\ Len(search_order) = 2
  /\ Holds(search_order[1], req)
  /\ Holds(search_order[2], req)
  /\ race[search_order[1]] = "fulfilled"
  /\ race[search_order[2]] = "fulfilled"
  /\ winner = search_order[2]

\* C19: the race of a project fulfils only once its institutes query has
\* answered too, so the winner has both answers; a project whose timer fired,
\* in whichever of the two queries, is not the winner and counts with the
\* misses; and a winner whose institutes query gave no row (or an error, which
\* the code reads as no row) is answered with the default institute fields.
CandidateNeedsBothLookups ==
  /\ \A s \in InOrder :
       /\ (race[s] = "fulfilled" => query[s] = "hit")
       /\ (race[s] = "pending" => query[s] \in {"student", "institute"})
       /\ (race[s] = "timeout" => winner # s)
  /\ (winner # NoWinner => query[winner] = "hit" /\ inst[winner] # Undefined)
  /\ (Dispatched /\ (\A n \in InOrder : race[n] \in Rejected)
        => winner = NoWinner /\ pc \in {"fallback", "done", "rejected"})
  /\ (SourceAnswered /\ inst[winner] = Null
        => resp.body.instituteData =
             [code |-> Str("00000"), name |-> Str("Unknown"), district |-> Str("Unknown")])

\* one project matched the student but its timer fired during its institutes
\* query; the other won with no institute row and got the defaults
InstitutePendingAtTimeout ==
  /\ SourceAnswered
  /\ inst[winner] = Null
  /\ resp.body.instituteData.code = Str("00000")
  /\ \E s \in InOrder :
       /\ Holds(s, req)
       /\ race[s] = "timeout"
       /\ query[s] = "institute"

\* the three kinds of answer to a well-formed request
IsSourceSuccess(r) ==
  r.status = 200 /\ r.body.success /\ "source" \notin DOMAIN r.body

IsWebSuccess(r) ==
  r.status = 200 /\ r.body.success /\ "source" \in DOMAIN r.body

IsNotFound(r) ==
  r.status = 404 /\ ~r.body.success

\* C20: with the timers firing, a request that has been dispatched is
\* answered; a response exists exactly when the handler is done and is never
\* replaced; no step of the request is left waiting on nothing; and the answer
\* to a well-formed request is the source success when there is a winner, the
\* web success when there is none and the fallback gave a result, and the
\* not-found result otherwise, and never two of these.
EveryRequestAnsweredOnce ==
  /\ (pc \in {"dispatch", "enrich", "fallback"}) ~> (resp # NoResponse)
  /\ [](pc # "rejected")
  /\ []((resp # NoResponse) = (pc = "done"))
  /\ [][resp # NoResponse => resp' = resp /\ pc' = "done"]_vars
  /\ [](pc = "enrich" => gpa = "pending" \/ cgpa = "pending")
  /\ [](pc = "fallback" => web = Pending)
  /\ [](pc = "done" /\ resp # BadRequest =>
          /\ IsSourceSuccess(resp) = (winner # NoWinner)
          /\ IsWebSuccess(resp) =
               (winner = NoWinner
                /\ webApiFallback(web, req.rollNo, req.regulation, req.program) # Null)
          /\ IsNotFound(resp) =
               (winner = NoWinner
                /\ webApiFallback(web, req.rollNo, req.regulation, req.program) = Null)
          /\ Cardinality({k \in {"source", "web", "none"} :
                           \/ k = "source" /\ IsSourceSuccess(resp)
                           \/ k = "web" /\ IsWebSuccess(resp)
                           \/ k = "none" /\ IsNotFound(resp)}) = 1)

====
